---- MODULE Spec2Model ----
(***************************************************************************)
(* Model of CoinglassWebSocketClient                                       *)
(* (src/src/coinglass_api_v3/clients/websocket_client.py).                 *)
(*                                                                         *)
(* Threads: the application (connect, disconnect, subscribe, unsubscribe), *)
(* one Transport worker per WebSocketApp (run_forever delivers on_open,    *)
(* on_message, on_error, on_close on that worker; the reconnect path runs  *)
(* inside on_close, hence on the worker that delivered the close) and the  *)
(* heartbeat workers started by _on_open.                                  *)
(*                                                                         *)
(* The wire is observed as the calls of ws.send made by one action         *)
(* (lastSent); whether the Transport then transmits the frame is outside   *)
(* the client.                                                             *)
(***************************************************************************)
EXTENDS Integers, Sequences, FiniteSets, TLC

VARIABLES
    ws,                  \* self.ws: 0 is None, else the Transport's worker slot
    is_connected,        \* self.is_connected
    is_authenticated,    \* self.is_authenticated
    subscribed_channels, \* self.subscribed_channels: insertion-ordered dict
    handlers,            \* self.handlers: function from its keys to handler lists
    reconnect_attempts,  \* self.reconnect_attempts
    running,             \* self.running
    connect_lock,        \* TRUE while connect() or disconnect() holds self.connect_lock
                         \* across steps
    app_create,          \* TRUE while connect() is in _start_ws_thread past its guard
    ws_thread,           \* self._ws_thread: 0 is None, else a worker slot
    thr,                 \* position of each Transport worker
    ping_thr,            \* number of heartbeat workers at each position of _send_ping
    discDuring,          \* history: workers in backoff during which disconnect() ran
    quiesced,            \* history: disconnect() returned, connect() not called since
    everAuth,            \* history: an auth result with success = true was received
    lastAct,             \* history: the operation that produced this state
    lastSent,            \* history: ws.send calls of that operation, in order
    lastCalls,           \* history: handler invocations of that operation, in order
    replay,              \* _resubscribe_channels in progress: the items of its
                         \* snapshot not yet sent
    caller,              \* subscribe() or unsubscribe() in progress on the caller's
                         \* thread, between its registry update and its send
    wire,                \* history: the "channel:param" strings subscribed on the
                         \* connection by the messages sent so far
    disc_cleared,        \* TRUE while disconnect() is between its last assignment
                         \* and its return
    disp,                \* the handler loop of _on_message in progress
    response,            \* the dictionary given to CoinglassAPIError.from_response
    error                \* the exception from_response returned

vars == <<ws, is_connected, is_authenticated, subscribed_channels, handlers,
          reconnect_attempts, running, connect_lock, app_create, ws_thread, thr,
          ping_thr, discDuring, quiesced, everAuth, lastAct, lastSent, lastCalls,
          replay, caller, wire, disc_cleared, disp, response, error>>

\* the variables of the steps inside subscribe(), unsubscribe() and the replay
raceVars == <<replay, caller, wire>>

\* the variables of CoinglassAPIError.from_response
errVars == <<response, error>>

----------------------------------------------------------------------------
\* Bounds of the model

MaxThreads == 2
MaxPingers == 2
MaxParamsLen == 2

\* Program constants

max_reconnect_attempts == 5
reconnect_interval == 5
PING_INTERVAL == 20

\* Input alphabets

Channels == {"liquidation", "trade"}
Params == {"BTC", "ETH"}
Handlers == {"h1", "h2"}
NoHandler == "None"
api_key == "KEY"

Slots == 1..MaxThreads

\* positions of a heartbeat worker: about to evaluate the loop condition
\* (wait), about to run the loop body (send); wait_f and send_f are the same
\* positions of a worker one of whose ws.send calls has raised
PingPos == {"wait", "send", "wait_f", "send_f"}

RECURSIVE SeqsUpTo(_, _)
SeqsUpTo(S, n) ==
    IF n = 0 THEN {<<>>}
    ELSE LET shorter == SeqsUpTo(S, n - 1)
         IN  shorter \cup {Append(s, x) : s \in shorter, x \in S}

ParamLists == SeqsUpTo(Params, MaxParamsLen)

\* the lists among them that name no parameter twice
DistinctLists == {ps \in ParamLists : \A i, j \in DOMAIN ps : i # j => ps[i] # ps[j]}

\* Inputs of the registry operations in the lifecycle specification
LifeChannels == {"liquidation"}
LifeParamLists == {<<"BTC", "ETH">>}
LifeHandlers == {"h1"}

----------------------------------------------------------------------------
\* Python list and dict primitives

Contains(s, x) == \E i \in DOMAIN s : s[i] = x
Range(s) == {s[i] : i \in DOMAIN s}

\* list.remove(x): deletes the first occurrence
ListRemove(s, x) ==
    LET i == CHOOSE j \in DOMAIN s : s[j] = x /\ \A k \in 1..(j - 1) : s[k] # x
    IN  [j \in 1..(Len(s) - 1) |-> IF j < i THEN s[j] ELSE s[j + 1]]

DictKeys(d) == {d[i].k : i \in DOMAIN d}
DictHas(d, key) == \E i \in DOMAIN d : d[i].k = key
DictIdx(d, key) == CHOOSE i \in DOMAIN d : d[i].k = key
DictGet(d, key) == d[DictIdx(d, key)].v
DictSet(d, key, val) ==
    IF DictHas(d, key) THEN [d EXCEPT ![DictIdx(d, key)].v = val]
    ELSE Append(d, [k |-> key, v |-> val])
DictDel(d, key) == SelectSeq(d, LAMBDA e : e.k # key)

\* f"{channel}:{param}" for each param
FormatArgs(channel, params) ==
    [i \in 1..Len(params) |-> channel \o ":" \o params[i]]

Msg(op, args) == [op |-> op, args |-> args]

\* _send_message: ws.send is called only with a handle and is_connected
SendMessage(w, conn, log, message) ==
    IF w # 0 /\ conn THEN Append(log, message) ELSE log

EmptyHandlers == [c \in {} |-> <<>>]

Alive(t) == t # 0 /\ thr[t] # "dead"

\* the text of a frame as _on_message looks at it: whether json.loads accepts
\* it and yields a dict, and the keys of that dict it reads ("" is an absent key)
NoRaw == [json |-> "", op |-> "", success |-> "", channel |-> "", data |-> "",
          event |-> ""]

Act(op) == [op |-> op, ch |-> "", who |-> 0, opened |-> FALSE, disturbed |-> FALSE,
            after_error |-> FALSE, first |-> FALSE, wait |-> 0, raised |-> {},
            before |-> {}, frame |-> NoRaw, payload |-> "", args |-> <<>>,
            rejected |-> FALSE, repeated |-> FALSE]

\* no handler loop in progress
NoDispatch == [active |-> FALSE, ch |-> "", list |-> <<>>, live |-> FALSE, idx |-> 0,
               start |-> <<>>, called |-> <<>>, removed |-> {}]

\* no response given, no exception returned
NoResponse == [code |-> [t |-> "absent", s |-> "", n |-> 0],
               msg |-> [t |-> "absent", s |-> "", n |-> 0]]
NoError == [class |-> "", message |-> "", code |-> "", response |-> NoResponse]

----------------------------------------------------------------------------
InitClient ==
    /\ ws = 0
    /\ is_connected = FALSE
    /\ is_authenticated = FALSE
    /\ subscribed_channels = <<>>
    /\ handlers = EmptyHandlers
    /\ reconnect_attempts = 0
    /\ running = FALSE
    /\ connect_lock = FALSE
    /\ ws_thread = 0
    /\ app_create = FALSE
    /\ thr = [i \in Slots |-> "dead"]
    /\ ping_thr = [q \in PingPos |-> 0]
    /\ discDuring = {}
    /\ quiesced = FALSE
    /\ everAuth = FALSE
    /\ lastAct = Act("init")
    /\ lastSent = <<>>
    /\ lastCalls = <<>>
    /\ replay = [pc |-> "idle", items |-> <<>>]
    /\ caller = [pc |-> "idle", ch |-> "", params |-> <<>>, handler |-> NoHandler,
                 remaining |-> <<>>]
    /\ wire = {}
    /\ disc_cleared = FALSE
    /\ disp = NoDispatch
    /\ error = NoError

Init == InitClient /\ response = NoResponse

----------------------------------------------------------------------------
\* Connection lifecycle

FreeSlots(self) == {i \in Slots : thr[i] = "dead" /\ i # self}
NewSlot(self) == CHOOSE i \in FreeSlots(self) : \A j \in FreeSlots(self) : i <= j

\* the number of live heartbeat workers
pingers == ping_thr["wait"] + ping_thr["send"] + ping_thr["wait_f"] + ping_thr["send_f"]

\* one heartbeat worker moves from position from to position to ("dead": it
\* ends)
PingMove(from, to) ==
    [q \in PingPos |-> ping_thr[q] - (IF q = from THEN 1 ELSE 0)
                                   + (IF q = to THEN 1 ELSE 0)]

\* the guard of _start_ws_thread: it goes on to create a Transport unless
\* self._ws_thread is alive
StartOpens == ~Alive(ws_thread)

\* _start_ws_thread past its guard, called by the application (self = 0) or by
\* worker self: creates a WebSocketApp, assigns self.ws and self._ws_thread and
\* starts the worker; the workers in exiting return from run_forever
StartWsThread(self, exiting) ==
    /\ FreeSlots(self) # {}
    /\ ws' = NewSlot(self)
    /\ ws_thread' = NewSlot(self)
    /\ thr' = [i \in Slots |-> IF i = NewSlot(self) THEN "connecting"
                               ELSE IF i \in exiting THEN "dead" ELSE thr[i]]

\* connect() up to the guard of _start_ws_thread
Connect ==
    /\ UNCHANGED <<raceVars, errVars, disp, disc_cleared>>
    /\ ~connect_lock
    /\ IF running
       THEN /\ UNCHANGED <<running, quiesced, connect_lock, app_create>>
            /\ lastAct' = Act("connect")
       ELSE /\ running' = TRUE
            /\ quiesced' = FALSE
            /\ connect_lock' = StartOpens
            /\ app_create' = StartOpens
            /\ lastAct' = [Act("connect") EXCEPT !.opened = StartOpens]
    /\ lastSent' = <<>>
    /\ lastCalls' = <<>>
    /\ UNCHANGED <<everAuth, ws, ws_thread, thr, is_connected, is_authenticated,
                   subscribed_channels, handlers, reconnect_attempts, ping_thr,
                   discDuring>>

\* connect() from the creation of the Transport to the release of the lock
ConnectCreate ==
    /\ UNCHANGED <<raceVars, errVars, disp, disc_cleared>>
    /\ app_create
    /\ StartWsThread(0, {})
    /\ app_create' = FALSE
    /\ connect_lock' = FALSE
    /\ lastAct' = [Act("connect_create") EXCEPT !.opened = TRUE]
    /\ lastSent' = <<>>
    /\ lastCalls' = <<>>
    /\ UNCHANGED <<everAuth, is_connected, is_authenticated, subscribed_channels,
                   handlers, reconnect_attempts, running, ping_thr, discDuring,
                   quiesced>>

\* disconnect() up to the join of the Transport worker (or to its return when
\* there is nothing to join)
DisconnectBegin ==
    /\ UNCHANGED <<raceVars, errVars, disp, disc_cleared>>
    /\ ~connect_lock
    /\ IF ~running
       THEN /\ UNCHANGED <<running, ws, ws_thread, is_connected, is_authenticated,
                           connect_lock, discDuring, quiesced>>
            /\ lastAct' = Act("disconnect_noop")
       ELSE /\ running' = FALSE
            /\ discDuring' = discDuring
                   \cup {i \in Slots : thr[i] \in {"incr", "backoff", "creating"}}
            /\ IF Alive(ws_thread)
               THEN /\ connect_lock' = TRUE
                    /\ UNCHANGED <<ws, ws_thread, is_connected, is_authenticated,
                                   quiesced>>
                    /\ lastAct' = Act("disconnect_join")
               ELSE /\ ws' = 0
                    /\ ws_thread' = 0
                    /\ is_connected' = FALSE
                    /\ is_authenticated' = FALSE
                    /\ quiesced' = TRUE
                    /\ UNCHANGED connect_lock
                    /\ lastAct' = Act("disconnect")
    /\ lastSent' = <<>>
    /\ lastCalls' = <<>>
    /\ UNCHANGED <<everAuth, subscribed_channels, handlers, reconnect_attempts, thr,
                   ping_thr, app_create>>

\* a disconnect() that also clears the registries
DisconnectEndClearsRegistries ==
    /\ UNCHANGED <<raceVars, errVars, disp>>
    /\ connect_lock
    /\ ~app_create
    /\ ~disc_cleared
    /\ disc_cleared' = TRUE
    /\ ws' = 0
    /\ ws_thread' = 0
    /\ is_connected' = FALSE
    /\ is_authenticated' = FALSE
    /\ subscribed_channels' = <<>>
    /\ handlers' = EmptyHandlers
    /\ lastAct' = Act("disconnect_clear")
    /\ lastSent' = <<>>
    /\ lastCalls' = <<>>
    /\ UNCHANGED <<everAuth, reconnect_attempts, running, thr, ping_thr, discDuring,
                   app_create, connect_lock, quiesced>>

\* disconnect() after join(timeout=5) returned, the worker terminated or not:
\* its assignments of None and False
DisconnectEnd ==
    /\ UNCHANGED <<raceVars, errVars, disp>>
    /\ connect_lock
    /\ ~app_create
    /\ ~disc_cleared
    /\ disc_cleared' = TRUE
    /\ ws' = 0
    /\ ws_thread' = 0
    /\ is_connected' = FALSE
    /\ is_authenticated' = FALSE
    /\ lastAct' = Act("disconnect_clear")
    /\ lastSent' = <<>>
    /\ lastCalls' = <<>>
    /\ UNCHANGED <<everAuth, subscribed_channels, handlers, reconnect_attempts, running, thr,
                   ping_thr, discDuring, app_create, connect_lock, quiesced>>

\* disconnect() returns and releases the lock
DisconnectReturn ==
    /\ UNCHANGED <<raceVars, errVars, disp>>
    /\ disc_cleared
    /\ disc_cleared' = FALSE
    /\ connect_lock' = FALSE
    /\ quiesced' = TRUE
    /\ lastAct' = Act("disconnect")
    /\ lastSent' = <<>>
    /\ lastCalls' = <<>>
    /\ UNCHANGED <<everAuth, ws, ws_thread, is_connected, is_authenticated,
                   subscribed_channels, handlers, reconnect_attempts, running, thr,
                   ping_thr, discDuring, app_create>>

\* _on_open on worker i
OnOpen(i) ==
    /\ UNCHANGED <<raceVars, errVars, disp, disc_cleared>>
    /\ thr[i] = "connecting"
    /\ pingers < MaxPingers
    /\ thr' = [thr EXCEPT ![i] = "open"]
    /\ is_connected' = TRUE
    /\ reconnect_attempts' = 0
    /\ lastSent' = SendMessage(ws, TRUE, <<>>, Msg("auth", <<api_key>>))
    /\ ping_thr' = [ping_thr EXCEPT !["wait"] = @ + 1]
    /\ lastAct' = [Act("open") EXCEPT !.who = i]
    /\ lastCalls' = <<>>
    /\ UNCHANGED <<everAuth, ws, is_authenticated, subscribed_channels, handlers, running,
                   connect_lock, app_create, ws_thread, discDuring, quiesced>>

\* an error handler that starts the reconnect itself
OnErrorReconnects(i) ==
    /\ UNCHANGED <<raceVars, errVars, disp, disc_cleared>>
    /\ thr[i] \in {"connecting", "open"}
    /\ is_connected' = FALSE
    /\ is_authenticated' = FALSE
    /\ thr' = [thr EXCEPT ![i] = IF running /\ reconnect_attempts < max_reconnect_attempts
                                    THEN "incr" ELSE @]
    /\ lastAct' = [Act("error") EXCEPT !.who = i]
    /\ lastSent' = <<>>
    /\ lastCalls' = <<>>
    /\ UNCHANGED <<everAuth, ws, subscribed_channels, handlers, reconnect_attempts, running,
                   connect_lock, app_create, ws_thread, ping_thr, discDuring,
                   quiesced>>

\* _on_error on worker i
OnError(i) ==
    /\ UNCHANGED <<raceVars, errVars, disp, disc_cleared>>
    /\ thr[i] \in {"connecting", "open"}
    /\ is_connected' = FALSE
    /\ is_authenticated' = FALSE
    /\ lastAct' = [Act("error") EXCEPT !.who = i]
    /\ lastSent' = <<>>
    /\ lastCalls' = <<>>
    /\ UNCHANGED <<everAuth, ws, subscribed_channels, handlers, reconnect_attempts, running,
                   connect_lock, app_create, ws_thread, thr, ping_thr, discDuring,
                   quiesced>>

\* a delay with the counter itself as the exponent
WaitTimeNoMinusOne(k) == reconnect_interval * (2 ^ k)

\* wait_time of the attempt numbered k
WaitTime(k) == reconnect_interval * (2 ^ (k - 1))

\* _on_close on worker i, with _attempt_reconnect up to the test of
\* reconnect_attempts against the maximum
OnClose(i) ==
    /\ UNCHANGED <<raceVars, errVars, disp, disc_cleared>>
    /\ thr[i] \in {"connecting", "open"}
    /\ is_connected' = FALSE
    /\ is_authenticated' = FALSE
    /\ IF running
       THEN IF reconnect_attempts < max_reconnect_attempts
            THEN /\ thr' = [thr EXCEPT ![i] = "incr"]
                 /\ lastAct' = [Act("close_unexpected") EXCEPT
                                    !.who = i,
                                    !.after_error = (lastAct.op = "error"
                                                     /\ lastAct.who = i)]
                 /\ UNCHANGED running
            ELSE /\ running' = FALSE
                 /\ thr' = [thr EXCEPT ![i] = "dead"]
                 /\ lastAct' = [Act("close_giveup") EXCEPT !.who = i]
       ELSE /\ thr' = [thr EXCEPT ![i] = "dead"]
            /\ lastAct' = [Act("close_intended") EXCEPT !.who = i]
            /\ UNCHANGED running
    /\ lastSent' = <<>>
    /\ lastCalls' = <<>>
    /\ UNCHANGED <<everAuth, ws, subscribed_channels, handlers, reconnect_attempts,
                   connect_lock, app_create, ws_thread, ping_thr, discDuring,
                   quiesced>>

\* _attempt_reconnect on worker i from the increment of reconnect_attempts to
\* the sleep
ReconnectBackoff(i) ==
    /\ UNCHANGED <<raceVars, errVars, disp, disc_cleared>>
    /\ thr[i] = "incr"
    /\ reconnect_attempts' = reconnect_attempts + 1
    /\ thr' = [thr EXCEPT ![i] = "backoff"]
    /\ lastAct' = [Act("close_retry") EXCEPT
                       !.who = i,
                       !.after_error = (lastAct.op = "close_unexpected"
                                        /\ lastAct.who = i /\ lastAct.after_error),
                       !.wait = WaitTime(reconnect_attempts + 1)]
    /\ lastSent' = <<>>
    /\ lastCalls' = <<>>
    /\ UNCHANGED <<everAuth, ws, is_connected, is_authenticated, subscribed_channels,
                   handlers, running, connect_lock, app_create, ws_thread, ping_thr,
                   discDuring, quiesced>>

\* _attempt_reconnect on worker i after its sleep: closes the current handle
\* and meets the guard of _start_ws_thread; when the guard refuses, the worker
\* returns from run_forever
ReconnectWake(i) ==
    /\ UNCHANGED <<raceVars, errVars, disp, disc_cleared>>
    /\ thr[i] = "backoff"
    /\ thr' = [thr EXCEPT ![i] = IF StartOpens THEN "creating" ELSE "dead"]
    /\ discDuring' = IF StartOpens THEN discDuring ELSE discDuring \ {i}
    /\ lastAct' = [Act("reconnect") EXCEPT !.who = i,
                                           !.opened = StartOpens,
                                           !.disturbed = (i \in discDuring)]
    /\ lastSent' = <<>>
    /\ lastCalls' = <<>>
    /\ UNCHANGED <<everAuth, ws, ws_thread, is_connected, is_authenticated,
                   subscribed_channels, handlers, reconnect_attempts, running,
                   connect_lock, app_create, ping_thr, quiesced>>

\* _start_ws_thread on worker i past its guard; the worker then returns from
\* run_forever
ReconnectCreate(i) ==
    /\ UNCHANGED <<raceVars, errVars, disp, disc_cleared>>
    /\ thr[i] = "creating"
    /\ StartWsThread(i, {i})
    /\ discDuring' = discDuring \ {i}
    /\ lastAct' = [Act("reconnect_create") EXCEPT !.who = i,
                                                  !.opened = TRUE,
                                                  !.disturbed = (i \in discDuring)]
    /\ lastSent' = <<>>
    /\ lastCalls' = <<>>
    /\ UNCHANGED <<everAuth, is_connected, is_authenticated, subscribed_channels,
                   handlers, reconnect_attempts, running, connect_lock, app_create,
                   ping_thr, quiesced>>

\* a heartbeat worker at position pos evaluates the loop condition of
\* _send_ping
PingLoop(pos) ==
    /\ UNCHANGED <<raceVars, errVars, disp, disc_cleared>>
    /\ pos \in {"wait", "wait_f"}
    /\ ping_thr[pos] > 0
    /\ IF running /\ is_connected
       THEN /\ ping_thr' = PingMove(pos, IF pos = "wait" THEN "send" ELSE "send_f")
            /\ lastAct' = Act("ping_loop")
       ELSE /\ ping_thr' = PingMove(pos, "dead")
            /\ lastAct' = Act("ping_exit")
    /\ lastSent' = <<>>
    /\ lastCalls' = <<>>
    /\ UNCHANGED <<everAuth, ws, is_connected, is_authenticated, subscribed_channels, handlers,
                   reconnect_attempts, running, connect_lock, app_create, ws_thread,
                   thr, discDuring, quiesced>>

\* where the loop body of _send_ping leaves the worker: _send_message catches
\* what ws.send raises, so the worker sleeps and meets the loop condition
\* again
PingAfterSend(pos, called, ok) ==
    IF called /\ ~ok THEN "wait_f"
    ELSE IF pos = "send" THEN "wait" ELSE "wait_f"

\* the loop body of _send_ping on a heartbeat worker at position pos:
\* _send_message calls ws.send when there is a handle and is_connected; ok
\* tells whether ws.send returns or raises
PingSend(pos, ok) ==
    /\ UNCHANGED <<raceVars, errVars, disp, disc_cleared>>
    /\ pos \in {"send", "send_f"}
    /\ ping_thr[pos] > 0
    /\ LET called == ws # 0 /\ is_connected
       IN  /\ (~called => ok)
           /\ lastSent' = IF called /\ ok THEN <<Msg("ping", <<>>)>> ELSE <<>>
           /\ lastAct' = [Act(IF ~called THEN "ping_skipped"
                              ELSE IF ok THEN "ping" ELSE "ping_failed")
                              EXCEPT !.after_error = (pos = "send_f")]
           /\ ping_thr' = PingMove(pos, PingAfterSend(pos, called, ok))
    /\ lastCalls' = <<>>
    /\ UNCHANGED <<everAuth, ws, is_connected, is_authenticated, subscribed_channels, handlers,
                   reconnect_attempts, running, connect_lock, app_create, ws_thread,
                   thr, discDuring, quiesced>>

----------------------------------------------------------------------------
\* Subscription registry, replay and dispatch

\* connected and authenticated on a Transport handle: the state in which
\* _send_message passes a subscribe or unsubscribe to ws.send
Authenticated == ws # 0 /\ is_connected /\ is_authenticated

\* the (channel, param) pairs of a registry
Pairs(d) == UNION {{<<d[i].k, d[i].v[j]>> : j \in DOMAIN d[i].v} : i \in DOMAIN d}

\* a loop that reports every requested parameter as new
RECURSIVE SubscribeLoopResend(_, _, _)
SubscribeLoopResend(cur, new, params) ==
    IF params = <<>> THEN <<cur, new>>
    ELSE SubscribeLoopResend(
             IF Contains(cur, Head(params)) THEN cur ELSE Append(cur, Head(params)),
             Append(new, Head(params)), Tail(params))

\* a loop that looks for each parameter in the list as it was before the call
RECURSIVE SubscribeLoopFromStart(_, _, _)
SubscribeLoopFromStart(cur, new, params) ==
    IF params = <<>> THEN <<cur, new>>
    ELSE IF ~Contains(SubSeq(cur, 1, Len(cur) - Len(new)), Head(params))
         THEN SubscribeLoopFromStart(Append(cur, Head(params)),
                                     Append(new, Head(params)), Tail(params))
         ELSE SubscribeLoopFromStart(cur, new, Tail(params))

\* the loop of subscribe over params: <<the channel's list, new_params_to_subscribe>>
RECURSIVE SubscribeLoop(_, _, _)
SubscribeLoop(cur, new, params) ==
    IF params = <<>> THEN <<cur, new>>
    ELSE IF ~Contains(cur, Head(params))
         THEN SubscribeLoop(Append(cur, Head(params)), Append(new, Head(params)),
                            Tail(params))
         ELSE SubscribeLoop(cur, new, Tail(params))

\* a registration that appends the handler without looking for it
AddHandlerAgain(hs, channel, handler) ==
    LET cur == IF channel \in DOMAIN hs THEN hs[channel] ELSE <<>>
    IN  [c \in DOMAIN hs \cup {channel} |->
             IF c = channel THEN Append(cur, handler) ELSE hs[c]]

\* the handler registration of subscribe
AddHandler(hs, channel, handler) ==
    LET cur == IF channel \in DOMAIN hs THEN hs[channel] ELSE <<>>
        upd == IF Contains(cur, handler) THEN cur ELSE Append(cur, handler)
    IN  [c \in DOMAIN hs \cup {channel} |-> IF c = channel THEN upd ELSE hs[c]]

\* a subscribe that registers nothing while the client is not authenticated
SubscribeResultDropsUnready(reg, hs, w, conn, auth, channel, params, handler) ==
    IF channel = "" \/ params = <<>> \/ ~(conn /\ auth)
    THEN [reg |-> reg, hs |-> hs, sent |-> <<>>, new |-> <<>>]
    ELSE LET cur == IF DictHas(reg, channel) THEN DictGet(reg, channel) ELSE <<>>
             res == SubscribeLoop(cur, <<>>, params)
         IN  [reg |-> DictSet(reg, channel, res[1]),
              hs |-> AddHandler(hs, channel, handler),
              sent |-> IF res[2] # <<>>
                       THEN SendMessage(w, conn, <<>>,
                                Msg("subscribe", FormatArgs(channel, res[2])))
                       ELSE <<>>,
              new |-> res[2]]

\* the body of subscribe as a function of the client's fields:
\* the registries it leaves and the ws.send calls it makes
SubscribeResult(reg, hs, w, conn, auth, channel, params, handler) ==
    IF channel = "" \/ params = <<>>
    THEN [reg |-> reg, hs |-> hs, sent |-> <<>>, new |-> <<>>]
    ELSE LET cur == IF DictHas(reg, channel) THEN DictGet(reg, channel) ELSE <<>>
             res == SubscribeLoop(cur, <<>>, params)
             new_params_to_subscribe == res[2]
         IN  [reg |-> DictSet(reg, channel, res[1]),
              hs |-> AddHandler(hs, channel, handler),
              sent |-> IF new_params_to_subscribe # <<>> /\ conn /\ auth
                       THEN SendMessage(w, conn, <<>>,
                                Msg("subscribe",
                                    FormatArgs(channel, new_params_to_subscribe)))
                       ELSE <<>>,
              new |-> new_params_to_subscribe]

\* a subscribe that registers the handler before it looks at its arguments
SubscribeRegistersFirst(channel, params, handler) ==
    LET r == SubscribeResult(subscribed_channels, handlers, ws, is_connected,
                             is_authenticated, channel, params, handler)
    IN  /\ lastAct' = [Act("subscribe") EXCEPT
                           !.rejected = (channel = "" \/ params = <<>>),
                           !.repeated = (Cardinality(Range(params)) # Len(params))]
        /\ UNCHANGED <<raceVars, errVars, disp, disc_cleared>>
        /\ lastCalls' = <<>>
        /\ subscribed_channels' = r.reg
        /\ handlers' = AddHandler(r.hs, channel, handler)
        /\ lastSent' = r.sent
        /\ UNCHANGED <<everAuth, ws, is_connected, is_authenticated, reconnect_attempts,
                       running, connect_lock, app_create, ws_thread, thr, ping_thr,
                       discDuring, quiesced>>

\* subscribe(channel, params, handler)
Subscribe(channel, params, handler) ==
    LET r == SubscribeResult(subscribed_channels, handlers, ws, is_connected,
                             is_authenticated, channel, params, handler)
    IN  /\ lastAct' = [Act("subscribe") EXCEPT
                           !.rejected = (channel = "" \/ params = <<>>),
                           !.repeated = (Cardinality(Range(params)) # Len(params))]
        /\ UNCHANGED <<raceVars, errVars, disp, disc_cleared>>
        /\ lastCalls' = <<>>
        /\ subscribed_channels' = r.reg
        /\ handlers' = r.hs
        /\ lastSent' = r.sent
        /\ UNCHANGED <<everAuth, ws, is_connected, is_authenticated, reconnect_attempts,
                       running, connect_lock, app_create, ws_thread, thr, ping_thr,
                       discDuring, quiesced>>

\* a loop that reports every requested parameter as unsubscribed
RECURSIVE UnsubscribeLoopAll(_, _, _)
UnsubscribeLoopAll(remaining, out, params) ==
    IF params = <<>> THEN <<remaining, out>>
    ELSE UnsubscribeLoopAll(
             IF Contains(remaining, Head(params))
             THEN ListRemove(remaining, Head(params)) ELSE remaining,
             Append(out, Head(params)), Tail(params))

\* the loop of unsubscribe over params: <<remaining_params, params_to_unsubscribe>>
RECURSIVE UnsubscribeLoop(_, _, _)
UnsubscribeLoop(remaining, out, params) ==
    IF params = <<>> THEN <<remaining, out>>
    ELSE IF Contains(remaining, Head(params))
         THEN UnsubscribeLoop(ListRemove(remaining, Head(params)),
                              Append(out, Head(params)), Tail(params))
         ELSE UnsubscribeLoop(remaining, out, Tail(params))

\* a removal that drops all handlers whenever no handler is passed
RemoveHandlersAlways(hs, channel, handler, remaining_params) ==
    IF channel \in DOMAIN hs
    THEN IF handler # NoHandler
         THEN IF Contains(hs[channel], handler)
              THEN [hs EXCEPT ![channel] = ListRemove(hs[channel], handler)]
              ELSE hs
         ELSE [c \in DOMAIN hs \ {channel} |-> hs[c]]
    ELSE hs

\* the handler removal of unsubscribe
RemoveHandlers(hs, channel, handler, remaining_params) ==
    IF channel \in DOMAIN hs
    THEN IF handler # NoHandler
         THEN IF Contains(hs[channel], handler)
              THEN [hs EXCEPT ![channel] = ListRemove(hs[channel], handler)]
              ELSE hs
         ELSE IF remaining_params = <<>>
              THEN [c \in DOMAIN hs \ {channel} |-> hs[c]]
              ELSE hs
    ELSE hs

\* the body of unsubscribe as a function of the client's fields
UnsubscribeResult(reg, hs, w, conn, auth, channel, params, handler) ==
    IF ~DictHas(reg, channel)
    THEN [reg |-> reg, hs |-> hs, sent |-> <<>>, gone |-> <<>>]
    ELSE LET res == UnsubscribeLoop(DictGet(reg, channel), <<>>, params)
             remaining_params == res[1]
             params_to_unsubscribe == res[2]
         IN  IF params_to_unsubscribe = <<>>
             THEN [reg |-> reg, hs |-> hs, sent |-> <<>>, gone |-> <<>>]
             ELSE [reg |-> IF remaining_params = <<>>
                           THEN DictDel(reg, channel)
                           ELSE DictSet(reg, channel, remaining_params),
                   hs |-> RemoveHandlers(hs, channel, handler, remaining_params),
                   sent |-> IF conn /\ auth
                            THEN SendMessage(w, conn, <<>>,
                                     Msg("unsubscribe",
                                         FormatArgs(channel, params_to_unsubscribe)))
                            ELSE <<>>,
                   gone |-> params_to_unsubscribe]

\* unsubscribe(channel, params, handler)
Unsubscribe(channel, params, handler) ==
    LET r == UnsubscribeResult(subscribed_channels, handlers, ws, is_connected,
                               is_authenticated, channel, params, handler)
    IN  /\ lastAct' = Act("unsubscribe")
        /\ UNCHANGED <<raceVars, errVars, disp, disc_cleared>>
        /\ lastCalls' = <<>>
        /\ subscribed_channels' = r.reg
        /\ handlers' = r.hs
        /\ lastSent' = r.sent
        /\ UNCHANGED <<everAuth, ws, is_connected, is_authenticated, reconnect_attempts,
                       running, connect_lock, app_create, ws_thread, thr, ping_thr,
                       discDuring, quiesced>>

\* a replay that sends one subscribe message for each parameter
RECURSIVE SendEach(_, _, _, _)
SendEach(w, conn, args, log) ==
    IF args = <<>> THEN log
    ELSE SendEach(w, conn, Tail(args),
                  SendMessage(w, conn, log, Msg("subscribe", <<Head(args)>>)))

RECURSIVE ResubscribeLoopPerParam(_, _, _, _)
ResubscribeLoopPerParam(w, conn, items, log) ==
    IF items = <<>> THEN log
    ELSE ResubscribeLoopPerParam(w, conn, Tail(items),
             SendEach(w, conn, FormatArgs(Head(items).k, Head(items).v), log))

\* the loop of _resubscribe_channels over the registry's items
RECURSIVE ResubscribeLoop(_, _, _, _)
ResubscribeLoop(w, conn, items, log) ==
    IF items = <<>> THEN log
    ELSE LET channel == Head(items).k
             current_params == Head(items).v
         IN  ResubscribeLoop(w, conn, Tail(items),
                 IF current_params # <<>>
                 THEN SendMessage(w, conn, log,
                          Msg("subscribe", FormatArgs(channel, current_params)))
                 ELSE log)

\* _resubscribe_channels, called with is_authenticated already assigned
ResubscribeChannels(w, conn, auth, registry) ==
    IF ~conn \/ ~auth THEN <<>>
    ELSE ResubscribeLoop(w, conn, registry, <<>>)

\* the frames a Transport delivers, by the shape _on_message tells apart; a
\* channel-data frame comes with the handlers that raise on its payload
Frames(chans, hs) ==
    {[kind |-> k, ch |-> "", raise |-> {}, data |-> "", raw |-> NoRaw] :
         k \in {"pong", "auth_ok", "auth_fail", "error_event", "garbage"}}
    \cup {[kind |-> "data", ch |-> c, raise |-> R, data |-> "d1", raw |-> NoRaw] :
              c \in chans, R \in SUBSET hs}

\* the texts a Transport delivers
RawFrames ==
    {[NoRaw EXCEPT !.json = j] : j \in {"invalid", "other"}}
    \cup {[json |-> "object", op |-> o, success |-> su, channel |-> c, data |-> d,
           event |-> e] :
              o \in {"", "pong", "auth", "subscribe"}, su \in {"", "true", "false"},
              c \in {"", "trade", "unhashable"}, d \in {"", "d1"},
              e \in {"", "error"}}

\* a classification that takes every dict with a success key for an auth result
ClassifyBySuccess(raw) ==
    IF raw.json # "object" THEN "garbage"
    ELSE IF raw.op = "pong" THEN "pong"
    ELSE IF raw.op = "auth" \/ raw.success # ""
         THEN (IF raw.success = "true" THEN "auth_ok" ELSE "auth_fail")
    ELSE IF raw.channel # "" /\ raw.data # ""
         THEN (IF raw.channel = "unhashable" THEN "garbage" ELSE "data")
    ELSE IF raw.event = "error" THEN "error_event"
    ELSE "garbage"

\* the branch of _on_message a text takes: json.loads raising, a value that is
\* no dict and a dict of no known shape end in "garbage", as does a
\* channel-data message whose channel cannot be a dict key (the TypeError is
\* caught by the outer except)
Classify(raw) ==
    IF raw.json # "object" THEN "garbage"
    ELSE IF raw.op = "pong" THEN "pong"
    ELSE IF raw.op = "auth"
         THEN (IF raw.success = "true" THEN "auth_ok" ELSE "auth_fail")
    ELSE IF raw.channel # "" /\ raw.data # ""
         THEN (IF raw.channel = "unhashable" THEN "garbage" ELSE "data")
    ELSE IF raw.event = "error" THEN "error_event"
    ELSE "garbage"

\* the frame of a text, with the handlers that raise on its payload
Decode(raw, raise) ==
    [kind |-> Classify(raw),
     ch |-> IF Classify(raw) = "data" THEN raw.channel ELSE "",
     raise |-> IF Classify(raw) = "data" THEN raise ELSE {},
     data |-> IF Classify(raw) = "data" THEN raw.data ELSE "",
     raw |-> raw]

\* a call that passes the whole message to the handler
HandlerArgEnvelope(frame) ==
    "{channel: " \o frame.ch \o ", data: " \o frame.data \o "}"

\* handler(channel_data): the argument of the handlers
HandlerArg(frame) == frame.data

\* a dispatch without the try around the handler call: the first exception
\* ends the loop in the handler of _on_message's outer try
RECURSIVE DispatchUnguarded(_, _, _)
DispatchUnguarded(list, raise, calls) ==
    IF list = <<>> THEN calls
    ELSE IF Head(list) \in raise THEN Append(calls, Head(list))
         ELSE DispatchUnguarded(Tail(list), raise, Append(calls, Head(list)))

\* the loop of _on_message over the channel's handlers: the handlers invoked,
\* in order; an exception of a handler is caught inside the loop
RECURSIVE Dispatch(_, _, _)
Dispatch(list, raise, calls) ==
    IF list = <<>> THEN calls
    ELSE Dispatch(Tail(list), raise, Append(calls, Head(list)))

\* an auth result that replays whatever success says
AuthReplayAlways(success, w, conn, registry) ==
    ResubscribeChannels(w, conn, TRUE, registry)

\* the ws.send calls of an auth result: the replay when success is true
AuthReplay(success, w, conn, registry) ==
    IF success THEN ResubscribeChannels(w, conn, TRUE, registry) ELSE <<>>

\* the auth results among them: the frames that change the client's fields
AuthFrames == {f \in Frames({}, {}) : f.kind \in {"auth_ok", "auth_fail"}}

\* _on_message on worker i
OnMessage(i, frame) ==
    /\ UNCHANGED <<raceVars, errVars, disp, disc_cleared>>
    /\ thr[i] = "open"
    /\ lastAct' = [Act(frame.kind) EXCEPT
                       !.ch = frame.ch,
                       !.first = (frame.kind = "auth_ok" /\ ~everAuth),
                       !.raised = IF frame.kind = "data" /\ frame.ch \in DOMAIN handlers
                                  THEN frame.raise \cap Range(handlers[frame.ch])
                                  ELSE {},
                       !.before = lastAct.raised,
                       !.frame = frame.raw,
                       !.payload = frame.data,
                       !.args = IF frame.kind = "data" /\ frame.ch \in DOMAIN handlers
                                THEN [n \in DOMAIN handlers[frame.ch] |->
                                          HandlerArg(frame)]
                                ELSE <<>>]
    /\ everAuth' = (everAuth \/ frame.kind = "auth_ok")
    /\ is_authenticated' =
           IF frame.kind = "auth_ok" THEN TRUE
           ELSE IF frame.kind = "auth_fail" THEN FALSE
           ELSE is_authenticated
    /\ lastSent' =
           IF frame.kind \in {"auth_ok", "auth_fail"}
           THEN AuthReplay(frame.kind = "auth_ok", ws, is_connected,
                           subscribed_channels)
           ELSE <<>>
    /\ lastCalls' =
           IF frame.kind = "data" /\ frame.ch \in DOMAIN handlers
           THEN Dispatch(handlers[frame.ch], frame.raise, <<>>) ELSE <<>>
    /\ UNCHANGED <<ws, is_connected, subscribed_channels, handlers,
                   reconnect_attempts, running, connect_lock, app_create, ws_thread,
                   thr, ping_thr, discDuring, quiesced>>

\* _on_message on worker i with the text raw
OnRawMessage(i, raw, raise) == OnMessage(i, Decode(raw, raise))

----------------------------------------------------------------------------
\* The handler loop of _on_message one iteration at a time, with handlers that
\* call subscribe() or unsubscribe() while they run.  The loop iterates over
\* the list object self.handlers[channel]: the iterator keeps the object and
\* an index, and yields list[index] as long as index < len(list).

\* what a handler does when invoked: nothing, or one call of subscribe or
\* unsubscribe
HandlerBodies ==
    {[kind |-> "none", ch |-> "", ps |-> <<>>, h |-> NoHandler]}
    \cup [kind : {"subscribe"}, ch : Channels, ps : {<<"BTC">>}, h : Handlers]
    \cup [kind : {"unsubscribe"}, ch : Channels, ps : {<<"BTC">>},
          h : Handlers \cup {NoHandler}]

\* the handlers registered for a channel, as a set
Registered(hs, channel) == IF channel \in DOMAIN hs THEN Range(hs[channel]) ELSE {}

\* _on_message on worker i with a channel-data message for a channel that has
\* handlers: the for statement takes the iterator of self.handlers[channel]
DispatchBegin(i, channel) ==
    /\ thr[i] = "open"
    /\ ~disp.active
    /\ channel \in DOMAIN handlers
    /\ disp' = [active |-> TRUE, ch |-> channel, list |-> handlers[channel],
                live |-> TRUE, idx |-> 0, start |-> handlers[channel],
                called |-> <<>>, removed |-> {}]
    /\ lastAct' = [Act("dispatch") EXCEPT !.ch = channel, !.who = i]
    /\ lastSent' = <<>>
    /\ lastCalls' = <<>>
    /\ UNCHANGED <<raceVars, errVars, disc_cleared>>
    /\ UNCHANGED <<everAuth, ws, is_connected, is_authenticated, subscribed_channels,
                   handlers, reconnect_attempts, running, connect_lock, app_create,
                   ws_thread, thr, ping_thr, discDuring, quiesced>>

\* one iteration: the iterator yields the next handler, the handler runs body.
\* handlers[channel].remove and .append change the list object the iterator
\* holds; del handlers[channel] detaches the object, which keeps its items
DispatchStep(body) ==
    /\ disp.active
    /\ disp.idx < Len(disp.list)
    /\ LET handler == disp.list[disp.idx + 1]
           r == IF body.kind = "subscribe"
                THEN SubscribeResult(subscribed_channels, handlers, ws, is_connected,
                                     is_authenticated, body.ch, body.ps, body.h)
                ELSE IF body.kind = "unsubscribe"
                THEN UnsubscribeResult(subscribed_channels, handlers, ws,
                                       is_connected, is_authenticated, body.ch,
                                       body.ps, body.h)
                ELSE [reg |-> subscribed_channels, hs |-> handlers, sent |-> <<>>]
           live == disp.live /\ disp.ch \in DOMAIN r.hs
       IN  /\ subscribed_channels' = r.reg
           /\ handlers' = r.hs
           /\ lastSent' = r.sent
           /\ lastCalls' = <<handler>>
           /\ disp' = [disp EXCEPT
                           !.live = live,
                           !.list = IF live THEN r.hs[disp.ch] ELSE disp.list,
                           !.idx = disp.idx + 1,
                           !.called = Append(disp.called, handler),
                           !.removed = disp.removed \cup
                                           (Registered(handlers, disp.ch)
                                                \ Registered(r.hs, disp.ch))]
           /\ lastAct' = [Act("handler") EXCEPT !.ch = disp.ch]
    /\ UNCHANGED <<raceVars, errVars, disc_cleared>>
    /\ UNCHANGED <<everAuth, ws, is_connected, is_authenticated, reconnect_attempts,
                   running, connect_lock, app_create, ws_thread, thr, ping_thr,
                   discDuring, quiesced>>

\* the iterator is exhausted: the for statement ends and _on_message returns
DispatchEnd ==
    /\ disp.active
    /\ disp.idx >= Len(disp.list)
    /\ disp' = [disp EXCEPT !.active = FALSE]
    /\ lastAct' = [Act("dispatch_end") EXCEPT !.ch = disp.ch]
    /\ lastSent' = <<>>
    /\ lastCalls' = <<>>
    /\ UNCHANGED <<raceVars, errVars, disc_cleared>>
    /\ UNCHANGED <<everAuth, ws, is_connected, is_authenticated, subscribed_channels,
                   handlers, reconnect_attempts, running, connect_lock, app_create,
                   ws_thread, thr, ping_thr, discDuring, quiesced>>

----------------------------------------------------------------------------
\* subscribe(), unsubscribe() and the replay step by step: the caller's
\* thread and the receive thread share the registry without a lock

\* the strings a registry stands for on the wire
RegistryArgs(d) == UNION {Range(FormatArgs(d[i].k, d[i].v)) : i \in DOMAIN d}

\* the subscribed strings after the messages of log, applied in send order
RECURSIVE ApplyWire(_, _)
ApplyWire(w, log) ==
    IF log = <<>> THEN w
    ELSE ApplyWire(IF Head(log).op = "subscribe" THEN w \cup Range(Head(log).args)
                   ELSE IF Head(log).op = "unsubscribe" THEN w \ Range(Head(log).args)
                   ELSE w,
                   Tail(log))

\* list(self.subscribed_channels.items()): the snapshot holds the list objects
\* of the registry; live tells that the registry still holds the same object
Snapshot(d) == [i \in DOMAIN d |-> [k |-> d[i].k, v |-> d[i].v, live |-> TRUE]]

\* an append to the channel's list, made in place, shows through the snapshot
SnapshotAppend(items, channel, val) ==
    [i \in DOMAIN items |->
         IF items[i].k = channel /\ items[i].live
         THEN [items[i] EXCEPT !.v = val] ELSE items[i]]

\* unsubscribe gives the channel a new list or deletes its key: the snapshot
\* keeps the old object
SnapshotDetach(items, channel) ==
    [i \in DOMAIN items |->
         IF items[i].k = channel THEN [items[i] EXCEPT !.live = FALSE] ELSE items[i]]

\* _on_message with an auth result of success = true, on worker i: assigns
\* is_authenticated and enters _resubscribe_channels up to its snapshot
RaceAuthOk(i) ==
    /\ UNCHANGED <<errVars, disp, disc_cleared>>
    /\ thr[i] = "open"
    /\ replay.pc = "idle"
    /\ is_authenticated' = TRUE
    /\ everAuth' = TRUE
    /\ replay' = IF is_connected /\ subscribed_channels # <<>>
                 THEN [pc |-> "send", items |-> Snapshot(subscribed_channels)]
                 ELSE replay
    /\ lastAct' = [Act("auth_ok") EXCEPT !.first = ~everAuth]
    /\ lastSent' = <<>>
    /\ lastCalls' = <<>>
    /\ UNCHANGED <<ws, is_connected, subscribed_channels, handlers, reconnect_attempts,
                   running, connect_lock, app_create, ws_thread, thr, ping_thr,
                   discDuring, quiesced, caller, wire>>

\* one iteration of the loop of _resubscribe_channels
RaceReplaySend ==
    /\ UNCHANGED <<errVars, disp, disc_cleared>>
    /\ replay.pc = "send"
    /\ LET channel == Head(replay.items).k
           current_params == Head(replay.items).v
           sent == IF current_params # <<>>
                   THEN SendMessage(ws, is_connected, <<>>,
                            Msg("subscribe", FormatArgs(channel, current_params)))
                   ELSE <<>>
       IN  /\ lastSent' = sent
           /\ wire' = ApplyWire(wire, sent)
    /\ replay' = IF Tail(replay.items) = <<>>
                 THEN [pc |-> "idle", items |-> <<>>]
                 ELSE [replay EXCEPT !.items = Tail(replay.items)]
    /\ lastAct' = Act("replay_send")
    /\ lastCalls' = <<>>
    /\ UNCHANGED <<ws, is_connected, is_authenticated, subscribed_channels, handlers,
                   reconnect_attempts, running, connect_lock, app_create, ws_thread,
                   thr, ping_thr, discDuring, quiesced, everAuth, caller>>

\* subscribe(channel, params, handler) up to the end of its loop over params
RaceSubscribeBegin(channel, params, handler) ==
    /\ UNCHANGED <<errVars, disp, disc_cleared>>
    /\ caller.pc = "idle"
    /\ params # <<>>
    /\ LET cur == IF DictHas(subscribed_channels, channel)
                  THEN DictGet(subscribed_channels, channel) ELSE <<>>
           res == SubscribeLoop(cur, <<>>, params)
       IN  /\ subscribed_channels' = DictSet(subscribed_channels, channel, res[1])
           /\ replay' = [replay EXCEPT !.items = SnapshotAppend(@, channel, res[1])]
           /\ caller' = [pc |-> "sub", ch |-> channel, params |-> res[2],
                         handler |-> handler, remaining |-> <<>>]
    /\ handlers' = AddHandler(handlers, channel, handler)
    /\ lastAct' = Act("subscribe_begin")
    /\ lastSent' = <<>>
    /\ lastCalls' = <<>>
    /\ UNCHANGED <<ws, is_connected, is_authenticated, reconnect_attempts, running,
                   connect_lock, app_create, ws_thread, thr, ping_thr, discDuring,
                   quiesced, everAuth, wire>>

\* the rest of subscribe: the send of new_params_to_subscribe
RaceSubscribeEnd ==
    /\ UNCHANGED <<errVars, disp, disc_cleared>>
    /\ caller.pc = "sub"
    /\ LET sent == IF caller.params # <<>> /\ is_connected /\ is_authenticated
                   THEN SendMessage(ws, is_connected, <<>>,
                            Msg("subscribe", FormatArgs(caller.ch, caller.params)))
                   ELSE <<>>
       IN  /\ lastSent' = sent
           /\ wire' = ApplyWire(wire, sent)
    /\ caller' = [pc |-> "idle", ch |-> "", params |-> <<>>, handler |-> NoHandler,
                  remaining |-> <<>>]
    /\ lastAct' = Act("subscribe")
    /\ lastCalls' = <<>>
    /\ UNCHANGED <<ws, is_connected, is_authenticated, subscribed_channels, handlers,
                   reconnect_attempts, running, connect_lock, app_create, ws_thread,
                   thr, ping_thr, discDuring, quiesced, everAuth, replay>>

\* unsubscribe(channel, params, handler) up to its update of the registry; a
\* call that finds nothing to unsubscribe returns
RaceUnsubscribeBegin(channel, params, handler) ==
    /\ UNCHANGED <<errVars, disp, disc_cleared>>
    /\ caller.pc = "idle"
    /\ DictHas(subscribed_channels, channel)
    /\ LET res == UnsubscribeLoop(DictGet(subscribed_channels, channel), <<>>, params)
           remaining_params == res[1]
           params_to_unsubscribe == res[2]
       IN  /\ params_to_unsubscribe # <<>>
           /\ subscribed_channels' =
                  IF remaining_params = <<>>
                  THEN DictDel(subscribed_channels, channel)
                  ELSE DictSet(subscribed_channels, channel, remaining_params)
           /\ caller' = [pc |-> "unsub", ch |-> channel,
                         params |-> params_to_unsubscribe, handler |-> handler,
                         remaining |-> remaining_params]
    /\ replay' = [replay EXCEPT !.items = SnapshotDetach(@, channel)]
    /\ lastAct' = Act("unsubscribe_begin")
    /\ lastSent' = <<>>
    /\ lastCalls' = <<>>
    /\ UNCHANGED <<ws, is_connected, is_authenticated, handlers, reconnect_attempts,
                   running, connect_lock, app_create, ws_thread, thr, ping_thr,
                   discDuring, quiesced, everAuth, wire>>

\* the rest of unsubscribe: the send of params_to_unsubscribe and the removal
\* of handlers
RaceUnsubscribeEnd ==
    /\ UNCHANGED <<errVars, disp, disc_cleared>>
    /\ caller.pc = "unsub"
    /\ LET sent == IF is_connected /\ is_authenticated
                   THEN SendMessage(ws, is_connected, <<>>,
                            Msg("unsubscribe", FormatArgs(caller.ch, caller.params)))
                   ELSE <<>>
       IN  /\ lastSent' = sent
           /\ wire' = ApplyWire(wire, sent)
    /\ handlers' = RemoveHandlers(handlers, caller.ch, caller.handler, caller.remaining)
    /\ caller' = [pc |-> "idle", ch |-> "", params |-> <<>>, handler |-> NoHandler,
                  remaining |-> <<>>]
    /\ lastAct' = Act("unsubscribe")
    /\ lastCalls' = <<>>
    /\ UNCHANGED <<ws, is_connected, is_authenticated, subscribed_channels,
                   reconnect_attempts, running, connect_lock, app_create, ws_thread,
                   thr, ping_thr, discDuring, quiesced, everAuth, replay>>

----------------------------------------------------------------------------
\* CoinglassAPIError.from_response (exceptions.py)

\* a value of the response dictionary: the key is absent, or its value is None,
\* a string (s) or an integer (n)
AbsentVal == [t |-> "absent", s |-> "", n |-> 0]
NoneVal == [t |-> "none", s |-> "", n |-> 0]
StrVal(x) == [t |-> "str", s |-> x, n |-> 0]
IntVal(x) == [t |-> "int", s |-> "", n |-> x]

CodeValues ==
    {AbsentVal, NoneVal} \cup {StrVal(x) : x \in {"30001", "50001", "40001", "99999", "0", ""}}
                   \cup {IntVal(x) : x \in {30001, 50001, 40001, 0, 7}}
MsgValues == {AbsentVal, NoneVal} \cup {StrVal(x) : x \in {"", "Some error", "Rate limit exceeded"}}
Responses == {[code |-> c, msg |-> m] : c \in CodeValues, m \in MsgValues}

\* str() of a natural number
Digit(d) == <<"0", "1", "2", "3", "4", "5", "6", "7", "8", "9">>[d + 1]
RECURSIVE IntStr(_)
IntStr(n) == IF n < 10 THEN Digit(n) ELSE IntStr(n \div 10) \o Digit(n % 10)

\* ERROR_CODE_MAP.get(code, cls)
ErrorClassFor(code, cls) ==
    IF code = "30001" THEN "APIKeyMissingError"
    ELSE IF code = "50001" THEN "RateLimitExceededError"
    ELSE IF code = "40001" THEN "RequestError"
    ELSE cls

\* str(response.get("code", "")) if response.get("code") is not None else ""
ResponseCode(resp) ==
    IF resp.code.t = "str" THEN resp.code.s
    ELSE IF resp.code.t = "int" THEN IntStr(resp.code.n)
    ELSE ""

\* a message taken from the response as it is
ResponseMessageAsIs(resp) == resp.msg.s

\* response.get("msg", "") or "Unknown API error"
ResponseMessage(resp) ==
    IF resp.msg.t = "str" /\ resp.msg.s # "" THEN resp.msg.s ELSE "Unknown API error"

\* from_response called on the class cls: the class, message, code and
\* response of the instance it returns
FromResponse(cls, resp) ==
    [class |-> ErrorClassFor(ResponseCode(resp), cls),
     message |-> ResponseMessage(resp),
     code |-> ResponseCode(resp),
     response |-> resp]

\* CoinglassAPIError.from_response(response)
FromResponseCall ==
    /\ error.class = ""
    /\ error' = FromResponse("CoinglassAPIError", response)
    /\ lastAct' = Act("from_response")
    /\ UNCHANGED <<ws, is_connected, is_authenticated, subscribed_channels, handlers,
                   reconnect_attempts, running, connect_lock, app_create, ws_thread,
                   thr, ping_thr, discDuring, quiesced, everAuth, lastSent, lastCalls,
                   raceVars, disc_cleared, disp, response>>

----------------------------------------------------------------------------
\* Specifications

\* The connection lifecycle and the heartbeat, with ws.send succeeding

NextConn ==
    \/ Connect
    \/ ConnectCreate
    \/ DisconnectBegin
    \/ DisconnectEnd
    \/ DisconnectReturn
    \/ \E i \in Slots : OnOpen(i)
    \/ \E i \in Slots : OnError(i)
    \/ \E i \in Slots : OnClose(i)
    \/ \E i \in Slots : ReconnectBackoff(i)
    \/ \E i \in Slots : ReconnectWake(i)
    \/ \E i \in Slots : ReconnectCreate(i)
    \/ \E pos \in PingPos : PingLoop(pos)
    \/ \E pos \in PingPos : PingSend(pos, TRUE)

SpecConn == Init /\ [][NextConn]_vars

\* The client under every operation, with the registry operations on a small
\* alphabet

Next ==
    \/ Connect
    \/ ConnectCreate
    \/ DisconnectBegin
    \/ DisconnectEnd
    \/ DisconnectReturn
    \/ \E i \in Slots : OnOpen(i)
    \/ \E i \in Slots : OnError(i)
    \/ \E i \in Slots : OnClose(i)
    \/ \E i \in Slots : ReconnectBackoff(i)
    \/ \E i \in Slots : ReconnectWake(i)
    \/ \E i \in Slots : ReconnectCreate(i)
    \/ \E pos \in PingPos : PingLoop(pos)
    \/ \E pos \in PingPos : PingSend(pos, TRUE)
    \/ \E i \in Slots, f \in Frames(LifeChannels, LifeHandlers) : OnMessage(i, f)
    \/ \E c \in LifeChannels, ps \in LifeParamLists, h \in LifeHandlers :
           Subscribe(c, ps, h)
    \/ \E c \in LifeChannels, ps \in LifeParamLists, h \in LifeHandlers :
           Unsubscribe(c, ps, h)

Spec == Init /\ [][Next]_vars

\* The heartbeat on one connection after the other, ws.send returning or
\* raising

NextBeat ==
    \/ Connect
    \/ ConnectCreate
    \/ DisconnectBegin
    \/ DisconnectEnd
    \/ DisconnectReturn
    \/ \E i \in Slots : OnOpen(i)
    \/ \E i \in Slots : OnClose(i)
    \/ \E pos \in PingPos : PingLoop(pos)
    \/ \E pos \in PingPos, ok \in BOOLEAN : PingSend(pos, ok)

SpecBeat == Init /\ [][NextBeat]_vars

\* The registry operations on the full alphabet, on a client that connects and
\* receives auth results. A step passes a list that names no parameter twice:
\* both loops skip a parameter they have already handled, so a list with a
\* repetition leaves the fields that its first occurrences leave, and the
\* properties of subscribe and unsubscribe range over every list of ParamLists
\* in every state reached. The subscribe steps take the non-empty lists; the
\* empty list, which subscribe rejects, is an input of SpecCodec.

NextReg ==
    \/ Connect
    \/ ConnectCreate
    \/ \E i \in Slots : OnOpen(i)
    \/ \E i \in Slots, f \in AuthFrames : OnMessage(i, f)
    \/ \E c \in Channels, ps \in DistinctLists \ {<<>>}, h \in Handlers :
           Subscribe(c, ps, h)
    \/ \E c \in Channels, ps \in DistinctLists, h \in Handlers \cup {NoHandler} :
           Unsubscribe(c, ps, h)

SpecReg == Init /\ [][NextReg]_vars

\* The dispatch of received frames on both channels with handlers that may
\* raise, the registries filled by subscriptions of one parameter

DispParamLists == {<<"BTC">>}

NextDisp ==
    \/ Connect
    \/ ConnectCreate
    \/ \E i \in Slots : OnOpen(i)
    \/ \E i \in Slots, f \in Frames(Channels, Handlers) : OnMessage(i, f)
    \/ \E c \in Channels, ps \in DispParamLists, h \in Handlers : Subscribe(c, ps, h)
    \/ \E c \in Channels, ps \in DispParamLists, h \in Handlers \cup {NoHandler} :
           Unsubscribe(c, ps, h)

SpecDisp == Init /\ [][NextDisp]_vars

\* One connection with subscribe(), unsubscribe() and the replay taken step by
\* step

NextRace ==
    \/ Connect
    \/ ConnectCreate
    \/ \E i \in Slots : OnOpen(i)
    \/ \E i \in Slots : RaceAuthOk(i)
    \/ RaceReplaySend
    \/ \E c \in Channels, ps \in DistinctLists, h \in LifeHandlers :
           RaceSubscribeBegin(c, ps, h)
    \/ RaceSubscribeEnd
    \/ \E c \in Channels, ps \in DistinctLists, h \in LifeHandlers \cup {NoHandler} :
           RaceUnsubscribeBegin(c, ps, h)
    \/ RaceUnsubscribeEnd

SpecRace == Init /\ [][NextRace]_vars

\* from_response on every response of the alphabet

InitErr == InitClient /\ response \in Responses

NextErr == FromResponseCall

SpecErr == InitErr /\ [][NextErr]_vars

\* One connection receiving every text of the alphabet, with subscribe() also
\* on empty arguments
CodecChannels == {"", "trade"}
CodecParamLists == {<<>>, <<"BTC">>}

NextCodec ==
    \/ Connect
    \/ ConnectCreate
    \/ \E i \in Slots : OnOpen(i)
    \/ \E i \in Slots, raw \in RawFrames, raise \in SUBSET LifeHandlers :
           OnRawMessage(i, raw, raise)
    \/ \E c \in CodecChannels, ps \in CodecParamLists, h \in LifeHandlers :
           Subscribe(c, ps, h)
    \/ \E c \in CodecChannels, ps \in CodecParamLists : Unsubscribe(c, ps, NoHandler)

SpecCodec == Init /\ [][NextCodec]_vars

\* One connection whose handlers call subscribe() and unsubscribe() from inside
\* the handler loop.  The registrations are made between two messages.
NextReent ==
    \/ Connect
    \/ ConnectCreate
    \/ \E i \in Slots : OnOpen(i)
    \/ \E c \in Channels, ps \in DispParamLists, h \in Handlers :
           ~disp.active /\ Subscribe(c, ps, h)
    \/ \E i \in Slots, c \in Channels : DispatchBegin(i, c)
    \/ \E body \in HandlerBodies : DispatchStep(body)
    \/ DispatchEnd

SpecReent == Init /\ [][NextReent]_vars

\* The connection lifecycle with the auth results of the server, on every
\* Transport that is connecting or open
NextAuth ==
    \/ Connect
    \/ ConnectCreate
    \/ DisconnectBegin
    \/ DisconnectEnd
    \/ DisconnectReturn
    \/ \E i \in Slots : OnOpen(i)
    \/ \E i \in Slots : OnError(i)
    \/ \E i \in Slots : OnClose(i)
    \/ \E i \in Slots : ReconnectBackoff(i)
    \/ \E i \in Slots : ReconnectWake(i)
    \/ \E i \in Slots : ReconnectCreate(i)
    \/ \E i \in Slots, f \in AuthFrames : OnMessage(i, f)

SpecAuth == Init /\ [][NextAuth]_vars

\* The registry operations called from one thread with every list of
\* ParamLists, those that name a parameter twice included, on one channel;
\* unsubscribe also names the channel that is never subscribed
NextLists ==
    \/ Connect
    \/ ConnectCreate
    \/ \E i \in Slots : OnOpen(i)
    \/ \E i \in Slots, f \in AuthFrames : OnMessage(i, f)
    \/ \E c \in LifeChannels, ps \in ParamLists, h \in LifeHandlers :
           Subscribe(c, ps, h)
    \/ \E c \in Channels, ps \in ParamLists, h \in LifeHandlers \cup {NoHandler} :
           Unsubscribe(c, ps, h)

SpecLists == Init /\ [][NextLists]_vars

----------------------------------------------------------------------------
\* Properties of the connection lifecycle

\* a step that creates a Transport: some worker slot enters "connecting"
OpensTransport == \E i \in Slots : thr'[i] = "connecting" /\ thr[i] # "connecting"

\* C1: after disconnect() returned, and until the application calls connect()
\* again, no Transport is opened, also when a reconnect backoff was sleeping
\* while disconnect() ran.
C1_NoOpenAfterDisconnect ==
    [][(quiesced /\ quiesced') => ~OpensTransport]_vars

\* C2: the reconnect path of an unexpected close (running, attempts below the
\* maximum, no disconnect() called meanwhile) goes on to open a new Transport:
\* after the backoff its worker passes the guard of _start_ws_thread and is
\* about to create the connection.
C2_CloseIsFollowedByOpen ==
    (lastAct.op = "reconnect" /\ ~lastAct.disturbed)
        => (lastAct.opened /\ thr[lastAct.who] = "creating")

\* C3: in a run of consecutive unexpected closes each close met with
\* reconnect_attempts below the maximum leads to one re-open, so that a client
\* that is still running after a reconnect path always has a live Transport
\* worker to deliver the next close; the close met with reconnect_attempts at
\* the maximum opens nothing and sets running to false.
C3_RetriesThenGivesUp ==
    /\ (lastAct.op = "reconnect" /\ ~lastAct.disturbed /\ running)
           => (reconnect_attempts \in 1..max_reconnect_attempts
               /\ \E i \in Slots : thr[i] # "dead")
    /\ lastAct.op = "close_giveup"
           => (~running /\ reconnect_attempts = max_reconnect_attempts
               /\ ~lastAct.opened)

----------------------------------------------------------------------------
\* Properties of the replay and of the registries' frame

\* the subscribe message that bundles every parameter of the i-th registry entry
BundleOf(reg, i) ==
    Msg("subscribe", [j \in DOMAIN reg[i].v |-> reg[i].k \o ":" \o reg[i].v[j]])

\* C4: an auth result with success = true received on a connected client
\* replays the registry: for every registered channel exactly one subscribe
\* message, carrying all of the channel's parameters as "channel:param" in
\* registry order, and no other message.
C4_ReplayOneBundlePerChannel ==
    (lastAct.op = "auth_ok" /\ ws # 0 /\ is_connected)
        => /\ Len(lastSent) = Len(subscribed_channels)
           /\ \A i \in DOMAIN subscribed_channels :
                  Cardinality({n \in DOMAIN lastSent :
                                   lastSent[n] = BundleOf(subscribed_channels, i)}) = 1

\* the replay of the registry {liquidation: [BTC, ETH]} in one message
C4_Witness ==
    /\ lastAct.op = "auth_ok"
    /\ subscribed_channels = <<[k |-> "liquidation", v |-> <<"BTC", "ETH">>]>>
    /\ lastSent = <<Msg("subscribe", <<"liquidation:BTC", "liquidation:ETH">>)>>

\* C5: the subscription registry and the handler registry are changed by
\* subscribe() and unsubscribe() only; every other operation (connect,
\* disconnect, Transport events, auth results and replay, reconnect, dispatch,
\* heartbeat) leaves both as they were.
C5_RegistriesChangedOnlyBySubscription ==
    [][(subscribed_channels' # subscribed_channels \/ handlers' # handlers)
           => lastAct'.op \in {"subscribe", "unsubscribe"}]_vars

\* a registry with parameters and a handler that has just gone through
\* disconnect()
C5_Witness ==
    /\ lastAct.op = "disconnect"
    /\ subscribed_channels = <<[k |-> "liquidation", v |-> <<"BTC", "ETH">>]>>
    /\ "liquidation" \in DOMAIN handlers
    /\ handlers["liquidation"] = <<"h1">>

----------------------------------------------------------------------------
\* Properties of subscribe and unsubscribe

\* the parameters registered for a channel, <<>> when the channel has no entry
ParamsOf(reg, channel) ==
    IF DictHas(reg, channel) THEN DictGet(reg, channel) ELSE <<>>

\* every channel but one has the same entry in both registries
OthersKept(reg, reg2, channel) ==
    \A c \in Channels \ {channel} :
        /\ DictHas(reg2, c) = DictHas(reg, c)
        /\ ParamsOf(reg2, c) = ParamsOf(reg, c)

FirstIdx(s, x) == CHOOSE i \in DOMAIN s : s[i] = x /\ \A k \in 1..(i - 1) : s[k] # x

\* the result of subscribe(c, ps, h) called in the current state
SubscribeNow(c, ps, h) ==
    SubscribeResult(subscribed_channels, handlers, ws, is_connected,
                    is_authenticated, c, ps, h)

\* the result of unsubscribe(c, ps, h) called in the current state
UnsubscribeNow(c, ps, h) ==
    UnsubscribeResult(subscribed_channels, handlers, ws, is_connected,
                      is_authenticated, c, ps, h)

\* C6: subscribe is idempotent. When subscribe(channel, params, handler) is
\* called twice in a row with the same arguments while Authenticated, the
\* second call sends nothing and leaves the subscription registry and the
\* handler list as the first call left them; the two calls together send one
\* subscribe message (when the first call brings a parameter that is not yet
\* registered; none when all were registered before).
C6_SubscribeIdempotent ==
    Authenticated =>
        \A c \in Channels, ps \in ParamLists, h \in Handlers :
            LET first == SubscribeNow(c, ps, h)
                again == SubscribeResult(first.reg, first.hs, ws, is_connected,
                                         is_authenticated, c, ps, h)
                fresh == ps # <<>>
                         /\ \E p \in Range(ps) :
                                <<c, p>> \notin Pairs(subscribed_channels)
            IN  /\ again.sent = <<>>
                /\ again.reg = first.reg
                /\ again.hs = first.hs
                /\ Len(first.sent) + Len(again.sent) = IF fresh THEN 1 ELSE 0

\* a subscribe of two parameters made while Authenticated has sent its one
\* message; the client is in the state in which the call can be repeated
C6_Witness ==
    /\ lastAct.op = "subscribe"
    /\ Authenticated
    /\ lastSent = <<Msg("subscribe", <<"trade:BTC", "trade:ETH">>)>>
    /\ ParamsOf(subscribed_channels, "trade") = <<"BTC", "ETH">>
    /\ handlers["trade"] = <<"h2">>

\* C7: subscribe(channel, params, handler) with a channel and params adds to the
\* channel's list exactly the requested parameters that were not registered,
\* each once, after the ones already there, and leaves the other channels
\* alone; when Authenticated and that delta is not empty it sends exactly one
\* subscribe message whose args are the delta as "channel:param"; otherwise it
\* sends nothing.
C7_SubscribeSendsDelta ==
    \A c \in Channels, ps \in ParamLists \ {<<>>}, h \in Handlers :
        LET r == SubscribeNow(c, ps, h)
            old == ParamsOf(subscribed_channels, c)
            new == ParamsOf(r.reg, c)
            delta == Range(ps) \ Range(old)
            added == SubSeq(new, Len(old) + 1, Len(new))
        IN  /\ DictHas(r.reg, c)
            /\ Len(new) = Len(old) + Cardinality(delta)
            /\ SubSeq(new, 1, Len(old)) = old
            /\ Range(added) = delta
            /\ \A i, j \in DOMAIN added :
                   i < j => FirstIdx(ps, added[i]) < FirstIdx(ps, added[j])
            /\ OthersKept(subscribed_channels, r.reg, c)
            /\ r.sent =
                   IF Authenticated /\ delta # {}
                   THEN <<Msg("subscribe",
                              [i \in DOMAIN added |-> c \o ":" \o added[i]])>>
                   ELSE <<>>

\* a subscribe on a channel that had BTC registered: only ETH is added and sent
C7_Witness ==
    /\ lastAct.op = "subscribe"
    /\ Authenticated
    /\ ParamsOf(subscribed_channels, "liquidation") = <<"BTC", "ETH">>
    /\ lastSent = <<Msg("subscribe", <<"liquidation:ETH">>)>>

\* C8: a subscribe() made while the client is not Authenticated sends nothing
\* and registers its parameters; a registered pair leaves the registry through
\* unsubscribe() only (no subscribe() call removes one, and no other step
\* does); and the replay of a successful auth result on a connected client
\* transmits every registered pair. So a subscription made while not
\* Authenticated is transmitted by the next replay.
C8_DeferredSubscribeIsReplayed ==
    /\ [](~Authenticated =>
              \A c \in Channels, ps \in ParamLists \ {<<>>}, h \in Handlers :
                  LET r == SubscribeNow(c, ps, h)
                  IN  /\ r.sent = <<>>
                      /\ \A p \in Range(ps) : <<c, p>> \in Pairs(r.reg))
    /\ []((lastAct.op = "auth_ok" /\ ws # 0 /\ is_connected) =>
              \A pr \in Pairs(subscribed_channels) :
                  \E n \in DOMAIN lastSent :
                      /\ lastSent[n].op = "subscribe"
                      /\ Contains(lastSent[n].args, pr[1] \o ":" \o pr[2]))
    /\ [](\A c \in Channels, ps \in ParamLists, h \in Handlers :
              Pairs(subscribed_channels) \subseteq Pairs(SubscribeNow(c, ps, h).reg))
    /\ [][~(Pairs(subscribed_channels) \subseteq Pairs(subscribed_channels'))
              => lastAct'.op = "unsubscribe"]_vars

\* the replay of the first successful auth result the client ever received
\* transmits two parameters: they were subscribed while not Authenticated
C8_Witness ==
    /\ lastAct.op = "auth_ok"
    /\ lastAct.first
    /\ Authenticated
    /\ lastSent = <<Msg("subscribe", <<"liquidation:BTC", "liquidation:ETH">>)>>

\* C9: an unsubscribe(channel, params, handler) removes from the channel's list
\* exactly the requested parameters that are registered, keeps the channel's
\* other parameters in their order and the other channels as they are, keeps
\* every handler other than the one passed, and, when Authenticated and that
\* intersection is not empty, sends exactly one unsubscribe message whose args
\* are the intersection as "channel:param"; otherwise it sends nothing.
C9_UnsubscribeRemovesIntersection ==
    \A c \in Channels, ps \in ParamLists, h \in Handlers \cup {NoHandler} :
        LET r == UnsubscribeNow(c, ps, h)
            old == ParamsOf(subscribed_channels, c)
            new == ParamsOf(r.reg, c)
            inter == Range(ps) \cap Range(old)
        IN  /\ new = SelectSeq(old, LAMBDA p : p \notin inter)
            /\ DictHas(r.reg, c) = (new # <<>>)
            /\ OthersKept(subscribed_channels, r.reg, c)
            /\ IF Authenticated /\ inter # {}
               THEN /\ Len(r.sent) = 1
                    /\ r.sent[1].op = "unsubscribe"
                    /\ Len(r.sent[1].args) = Cardinality(inter)
                    /\ Range(r.sent[1].args) = {c \o ":" \o p : p \in inter}
               ELSE r.sent = <<>>
            /\ \A c2 \in DOMAIN handlers :
                   \A x \in Range(handlers[c2]) :
                       (c2 # c \/ (h # NoHandler /\ x # h))
                           => /\ c2 \in DOMAIN r.hs
                              /\ x \in Range(r.hs[c2])

\* an unsubscribe that removed one of two parameters, sent it alone and left
\* the other parameter and a handler registered
C9_Witness ==
    /\ lastAct.op = "unsubscribe"
    /\ Authenticated
    /\ lastSent = <<Msg("unsubscribe", <<"liquidation:BTC">>)>>
    /\ ParamsOf(subscribed_channels, "liquidation") = <<"ETH">>
    /\ handlers["liquidation"] = <<"h2">>

\* the effect on the handler registry that C10 describes, from hs to hs2, for
\* a call on channel c with handler h that leaves the parameters new
HandlersAsClaimed(hs, hs2, c, h, new) ==
    /\ \A c2 \in DOMAIN hs \ {c} : c2 \in DOMAIN hs2 /\ hs2[c2] = hs[c2]
    /\ c \in DOMAIN hs
           => IF h # NoHandler
              THEN /\ c \in DOMAIN hs2
                   /\ hs2[c] = SelectSeq(hs[c], LAMBDA x : x # h)
              ELSE IF new = <<>>
                   THEN c \notin DOMAIN hs2
                   ELSE c \in DOMAIN hs2 /\ hs2[c] = hs[c]

----------------------------------------------------------------------------
\* Properties of the registries' clean-up

\* C11: after any sequence of subscribe and unsubscribe calls no channel is
\* left without parameters in subscribed_channels, and handlers holds no key
\* with an empty handler list for a channel that has no parameters.
C11_NoEmptyEntries ==
    /\ \A i \in DOMAIN subscribed_channels : subscribed_channels[i].v # <<>>
    /\ \A c \in DOMAIN handlers :
           handlers[c] = <<>> => DictHas(subscribed_channels, c)

----------------------------------------------------------------------------
\* Properties of the received frames

\* C12: an auth result with success = false leaves the client connected as it
\* was and not authenticated, sends nothing (no replay, no second auth message)
\* and starts no reconnect: the Transport handle, the workers, running and
\* reconnect_attempts stay as they were. A subscribe() made while the client is
\* not authenticated, so any one made after that result, sends nothing,
\* registers its parameters and changes nothing but the registries.
C12_AuthFailureKeepsConnection ==
    /\ [](lastAct.op = "auth_fail" =>
              /\ ~is_authenticated
              /\ lastSent = <<>>
              /\ \A c \in Channels, ps \in ParamLists \ {<<>>}, h \in Handlers :
                     LET r == SubscribeNow(c, ps, h)
                     IN  /\ r.sent = <<>>
                         /\ \A p \in Range(ps) : <<c, p>> \in Pairs(r.reg))
    /\ [][lastAct'.op = "auth_fail" =>
              UNCHANGED <<ws, is_connected, subscribed_channels, handlers,
                          reconnect_attempts, running, connect_lock, ws_thread,
                          thr, ping_thr>>]_vars
    /\ [][(~is_authenticated /\ lastAct'.op = "subscribe") =>
              /\ lastSent' = <<>>
              /\ UNCHANGED <<ws, is_connected, is_authenticated,
                             reconnect_attempts, running, connect_lock,
                             ws_thread, thr, ping_thr>>]_vars

\* a failed auth result on a connected client whose registry holds two
\* parameters: nothing was replayed
C12_Witness ==
    /\ lastAct.op = "auth_fail"
    /\ ws # 0
    /\ is_connected
    /\ ~is_authenticated
    /\ subscribed_channels = <<[k |-> "liquidation", v |-> <<"BTC", "ETH">>]>>
    /\ lastSent = <<>>

\* C13: handler failures are isolated. Whatever handlers raise on a
\* channel-data message, the message is passed to every handler registered for
\* its channel, in registration order, and the client's fields stay as they
\* were; so the next message is again passed to all of them, the one that
\* raised included.
C13_HandlerFailuresIsolated ==
    /\ [](lastAct.op = "data" =>
              lastCalls = IF lastAct.ch \in DOMAIN handlers
                          THEN handlers[lastAct.ch] ELSE <<>>)
    /\ [][lastAct'.op = "data" =>
              UNCHANGED <<ws, is_connected, is_authenticated, subscribed_channels,
                          handlers, reconnect_attempts, running, connect_lock,
                          ws_thread, thr, ping_thr>>]_vars

\* a message on which h1 raised, following a message on which h1 raised: h1
\* and then h2 were invoked
C13_Witness ==
    /\ lastAct.op = "data"
    /\ lastAct.ch = "trade"
    /\ lastAct.before = {"h1"}
    /\ lastAct.raised = {"h1"}
    /\ lastCalls = <<"h1", "h2">>

----------------------------------------------------------------------------
\* Properties of the heartbeat and of concurrent lifecycle calls

\* C14: after disconnect() returned, and until the application calls connect()
\* again, no heartbeat worker sends a ping.
C14_NoPingAfterDisconnect ==
    [][(quiesced /\ quiesced') => lastAct'.op # "ping"]_vars

\* C15: connect() on a running client changes nothing; on a client that is not
\* running it sets running and goes on to open a Transport: it passes the guard
\* of _start_ws_thread and creates the connection before it releases the lock,
\* so that of several connect() calls one opens a Transport and the others,
\* which find running set, open none.
C15_ConnectOpensOnce ==
    /\ [][(lastAct'.op = "connect" /\ running) =>
              UNCHANGED <<ws, is_connected, is_authenticated, subscribed_channels,
                          handlers, reconnect_attempts, running, connect_lock,
                          app_create, ws_thread, thr, ping_thr>>]_vars
    /\ [][(lastAct'.op = "connect" /\ ~running) =>
              (running' /\ lastAct'.opened /\ app_create')]_vars

\* the threads inside _start_ws_thread past its guard
Creators ==
    (IF app_create THEN {0} ELSE {}) \cup {i \in Slots : thr[i] = "creating"}

\* C16: two open attempts never overlap: at most one thread at a time is
\* creating a Transport.
C16_OneOpenAttempt == Cardinality(Creators) <= 1

\* C18: reconnect_attempts stays within 0..max_reconnect_attempts, and is 0
\* after every Transport open event.
C18_AttemptsBounded ==
    /\ reconnect_attempts \in 0..max_reconnect_attempts
    /\ lastAct.op = "open" => reconnect_attempts = 0

\* C19: a Transport error event sets is_connected and is_authenticated to false
\* and leaves running, reconnect_attempts, the Transport handle and every
\* worker where they were: it starts no reconnect. The reconnect of a
\* connection loss (a close met while running with attempts below the maximum)
\* is started by the close alone, with or without an error before it: the
\* close moves its worker, and no other, into the reconnect path, and that
\* worker increments reconnect_attempts by one, once.
C19_ErrorStartsNoReconnect ==
    /\ [][lastAct'.op = "error" =>
              /\ ~is_connected' /\ ~is_authenticated'
              /\ UNCHANGED <<running, reconnect_attempts, ws, ws_thread, thr,
                             connect_lock, app_create, ping_thr>>]_vars
    /\ [][lastAct'.op = "close_unexpected" =>
              /\ thr[lastAct'.who] \in {"connecting", "open"}
              /\ thr' = [thr EXCEPT ![lastAct'.who] = "incr"]
              /\ UNCHANGED reconnect_attempts]_vars
    /\ [][lastAct'.op = "close_retry" =>
              /\ reconnect_attempts' = reconnect_attempts + 1
              /\ thr[lastAct'.who] = "incr"
              /\ thr' = [thr EXCEPT ![lastAct'.who] = "backoff"]]_vars
    /\ [][reconnect_attempts' > reconnect_attempts => lastAct'.op = "close_retry"]_vars

\* an error directly followed by the close of the same worker: one increment
C19_Witness ==
    /\ lastAct.op = "close_retry"
    /\ lastAct.after_error
    /\ reconnect_attempts = 1
    /\ thr[lastAct.who] = "backoff"

\* C20: a heartbeat worker whose ping send has raised sends no further ping,
\* and the failed send changes neither the connection status nor running and
\* starts no reconnect.
C20_FailedPingEndsLoop ==
    /\ [](lastAct.op = "ping" => ~lastAct.after_error)
    /\ [][lastAct'.op = "ping_failed" =>
              UNCHANGED <<is_connected, is_authenticated, running,
                          reconnect_attempts, ws, ws_thread, thr>>]_vars

\* C17: once subscribe(), unsubscribe() and the replay have all completed on
\* an authenticated connection, the "channel:param" strings subscribed on the
\* wire (subscribe messages minus unsubscribe messages, in send order) are
\* those of the subscription registry, whatever the interleaving of their
\* steps was.
C17_WireMatchesRegistry ==
    (Authenticated /\ replay.pc = "idle" /\ caller.pc = "idle")
        => wire = RegistryArgs(subscribed_channels)

----------------------------------------------------------------------------
\* Properties of the heartbeat workers, the backoff and the handler registry

\* C26: while the client is connected at most one heartbeat worker is alive:
\* the worker of an earlier connection has ended before a later connection
\* has its own.
C26_OneHeartbeatWorker == is_connected => pingers <= 1

\* the delays of the attempts 1..5 with interval 5
Delays == <<5, 10, 20, 40, 80>>

\* C27: the reconnect path increments reconnect_attempts and then computes
\* its delay from the incremented value k: for k <= max_reconnect_attempts the
\* delay is reconnect_interval * 2^(k-1), that is 5, 10, 20, 40, 80.
C27_BackoffDoubles ==
    (lastAct.op = "close_retry" /\ reconnect_attempts <= max_reconnect_attempts)
        => /\ reconnect_attempts >= 1
           /\ lastAct.wait = reconnect_interval * (2 ^ (reconnect_attempts - 1))
           /\ lastAct.wait = Delays[reconnect_attempts]

\* the fifth attempt in a row waits 80
C27_Witness ==
    /\ lastAct.op = "close_retry"
    /\ reconnect_attempts = max_reconnect_attempts
    /\ lastAct.wait = 80

\* C29: every channel with a registered handler has registered parameters, so
\* that a channel-data message for a channel that is not in the subscription
\* registry invokes no handler.
C29_NoHandlerWithoutParams ==
    /\ \A c \in DOMAIN handlers :
           handlers[c] # <<>> => DictHas(subscribed_channels, c)
    /\ (lastAct.op = "data" /\ ~DictHas(subscribed_channels, lastAct.ch))
           => lastCalls = <<>>

\* C24: every Transport open makes the client connected and sends exactly one
\* message, the auth message carrying the API key, on the Transport that
\* opened, before the heartbeat worker is started.
C24_OpenSendsAuth ==
    lastAct.op = "open"
        => /\ is_connected
           /\ lastSent = <<Msg("auth", <<api_key>>)>>
           /\ ws = lastAct.who
           /\ pingers >= 1

\* C23: disconnect() on a running client sets running to false before it
\* closes the Transport, so that a close delivered while it runs starts no
\* reconnect, and at the moment it returns running, is_connected and
\* is_authenticated are false and there is no Transport handle; disconnect() on
\* a client that is not running changes nothing.
C23_DisconnectLeavesDisconnected ==
    /\ [](lastAct.op = "disconnect"
              => (~running /\ ~is_connected /\ ~is_authenticated /\ ws = 0))
    /\ [][lastAct'.op = "disconnect_join" => (running /\ ~running')]_vars
    /\ [][(connect_lock /\ ~app_create)
              => lastAct'.op \notin {"close_unexpected", "close_giveup"}]_vars
    /\ [][lastAct'.op = "disconnect_noop" =>
              UNCHANGED <<ws, is_connected, is_authenticated, subscribed_channels,
                          handlers, reconnect_attempts, running, connect_lock,
                          app_create, ws_thread, thr, ping_thr>>]_vars

----------------------------------------------------------------------------
\* Properties of CoinglassAPIError.from_response

\* the response code as a string, "" when the response has none
CodeAsString(resp) ==
    CASE resp.code.t = "str" -> resp.code.s
      [] resp.code.t = "int" ->
             (CASE resp.code.n = 30001 -> "30001"
                [] resp.code.n = 50001 -> "50001"
                [] resp.code.n = 40001 -> "40001"
                [] resp.code.n = 0 -> "0"
                [] resp.code.n = 7 -> "7")
      [] OTHER -> ""

\* C28: CoinglassAPIError.from_response(response) returns an instance of
\* APIKeyMissingError for the code 30001, of RateLimitExceededError for 50001,
\* of RequestError for 40001 and of CoinglassAPIError itself for any other or
\* missing code; its code is the response code as a string ("" when missing),
\* its message the response's msg, or "Unknown API error" when msg is missing
\* or empty, and its response the dictionary given.
C28_FromResponse ==
    error.class # ""
        => /\ error.class =
                  (CASE CodeAsString(response) = "30001" -> "APIKeyMissingError"
                     [] CodeAsString(response) = "50001" -> "RateLimitExceededError"
                     [] CodeAsString(response) = "40001" -> "RequestError"
                     [] OTHER -> "CoinglassAPIError")
           /\ error.code = CodeAsString(response)
           /\ error.message =
                  (IF response.msg.t \in {"absent", "none"} \/ response.msg.s = ""
                   THEN "Unknown API error" ELSE response.msg.s)
           /\ error.response = response

\* the response {"code": 30001} without msg
C28_Witness ==
    /\ response = [code |-> IntVal(30001), msg |-> AbsentVal]
    /\ error.class = "APIKeyMissingError"
    /\ error.code = "30001"
    /\ error.message = "Unknown API error"

----------------------------------------------------------------------------
\* Properties of the message codec, of the arguments of subscribe and of the
\* dispatch

\* the texts without effect: no valid JSON, no JSON object, or an object that
\* is neither an auth result (op "auth") nor channel data (channel and data
\* present): pong, server error events and everything unrecognized
WithoutEffect(raw) ==
    \/ raw.json # "object"
    \/ (raw.op # "auth" /\ ~(raw.channel # "" /\ raw.data # "" /\ raw.op # "pong"))

\* C21: a text that is not valid JSON, is no JSON object or has none of the
\* known shapes, and likewise a pong and a server error event, is dropped: no
\* handler is invoked, no message is sent, and no field of the client changes;
\* no text has its exception escape _on_message.
C21_UnknownFramesDropped ==
    /\ [](lastAct.op # "escaped")
    /\ [][(lastAct'.frame # NoRaw /\ WithoutEffect(lastAct'.frame)) =>
              /\ lastSent' = <<>>
              /\ lastCalls' = <<>>
              /\ UNCHANGED <<ws, is_connected, is_authenticated, subscribed_channels,
                             handlers, reconnect_attempts, running, connect_lock,
                             app_create, ws_thread, thr, ping_thr>>]_vars

\* an object with a success key and a channel but no op and no data, received
\* by an authenticated client with a registered handler
C21_Witness ==
    /\ lastAct.frame = [json |-> "object", op |-> "", success |-> "false",
                        channel |-> "trade", data |-> "", event |-> ""]
    /\ is_connected /\ is_authenticated
    /\ DictHas(subscribed_channels, "trade")
    /\ "trade" \in DOMAIN handlers

\* C22: subscribe() with an empty channel or an empty params list sends no
\* message and changes neither registry nor any other field: the handler is
\* not registered.
C22_EmptySubscribeRejected ==
    [][(lastAct'.op = "subscribe" /\ lastAct'.rejected) =>
           /\ lastSent' = <<>>
           /\ UNCHANGED <<ws, is_connected, is_authenticated, subscribed_channels,
                          handlers, reconnect_attempts, running, connect_lock,
                          app_create, ws_thread, thr, ping_thr>>]_vars

\* a rejected subscribe on a connected client
C22_Witness ==
    /\ lastAct.op = "subscribe"
    /\ lastAct.rejected
    /\ is_connected /\ is_authenticated
    /\ handlers = EmptyHandlers

\* C25: a channel-data message invokes the handlers registered for its
\* channel, in registration order, each once and each with the inner data
\* payload; a message for a channel without handlers invokes none; subscribe
\* registers a new handler behind the registered ones and keeps their order.
C25_DispatchInRegistrationOrder ==
    /\ lastAct.op = "data"
           => /\ lastCalls = (IF lastAct.ch \in DOMAIN handlers
                              THEN handlers[lastAct.ch] ELSE <<>>)
              /\ \A m, n \in DOMAIN lastCalls : m # n => lastCalls[m] # lastCalls[n]
              /\ lastAct.args = [n \in DOMAIN lastCalls |-> lastAct.payload]
              /\ lastAct.payload = "d1"
    /\ \A c \in Channels, h \in Handlers :
           LET old == IF c \in DOMAIN handlers THEN handlers[c] ELSE <<>>
           IN  SubscribeNow(c, <<"BTC">>, h).hs[c] =
                   (IF Contains(old, h) THEN old ELSE Append(old, h))

\* h2 registered before h1: both invoked, h2 first, with the payload
C25_Witness ==
    /\ lastAct.op = "data"
    /\ lastAct.ch = "trade"
    /\ "trade" \in DOMAIN handlers
    /\ handlers["trade"] = <<"h2", "h1">>
    /\ lastCalls = <<"h2", "h1">>
    /\ lastAct.args = <<"d1", "d1">>

\* C30: when the handlers invoked for a message call subscribe or unsubscribe,
\* every handler that was registered for the channel when the message arrived
\* and has not been removed has been invoked exactly once when the loop ends.
Times(s, x) == Cardinality({n \in DOMAIN s : s[n] = x})

C30_DispatchRobustToReentrancy ==
    lastAct.op = "dispatch_end" =>
        \A h \in Range(disp.start) \ disp.removed : Times(disp.called, h) = 1

\* C31: the two status flags encode Disconnected, Connected or Authenticated:
\* in every reachable state is_authenticated implies is_connected.
C31_AuthenticatedImpliesConnected == is_authenticated => is_connected

\* a list without a repeated item
NoRepeat(s) == \A i, j \in DOMAIN s : i # j => s[i] # s[j]

\* C32: after any sequence of subscribe and unsubscribe calls made from one
\* thread, every channel of the subscription registry has a non-empty list of
\* parameters that holds no parameter twice, also after a subscribe whose list
\* names a parameter more than once; an unsubscribe for a channel that is not
\* registered, or of which no requested parameter is registered, changes
\* neither registry and sends nothing.
C32_RegistryListsAreSets ==
    /\ [](/\ \A i \in DOMAIN subscribed_channels :
                 /\ subscribed_channels[i].v # <<>>
                 /\ NoRepeat(subscribed_channels[i].v)
          /\ NoRepeat([i \in DOMAIN subscribed_channels |-> subscribed_channels[i].k])
          /\ \A c \in Channels, ps \in ParamLists, h \in Handlers \cup {NoHandler} :
                 LET r == UnsubscribeNow(c, ps, h)
                 IN  Range(ps) \cap Range(ParamsOf(subscribed_channels, c)) = {}
                         => /\ r.reg = subscribed_channels
                            /\ r.hs = handlers
                            /\ r.sent = <<>>)
    /\ [][(lastAct'.op = "unsubscribe" /\ subscribed_channels' = subscribed_channels)
              => (handlers' = handlers /\ lastSent' = <<>>)]_vars

\* a subscribe whose list names a parameter twice has registered it while the
\* client is Authenticated, and has sent it once
C32_Witness ==
    /\ lastAct.op = "subscribe"
    /\ lastAct.repeated
    /\ Authenticated
    /\ Len(lastSent) = 1
    /\ Len(lastSent[1].args) = 1
    /\ subscribed_channels # <<>>

====
